---- MODULE Spec2Model ----
(***************************************************************************)
(* CppSqlWrapper: SqlDatabase (one connection) and the SqlStatement        *)
(* objects derived from it, over an abstract SQLite engine.                *)
(*                                                                         *)
(* The engine is the environment: a prepared statement is a record with    *)
(* the number of rows and columns its query produces and the position of   *)
(* its cursor; sqlite3_step may also answer with an error status.          *)
(* Every action is one call of the wrapper's API; `last` records the call  *)
(* (operation, object, arguments, outcome, engine calls it made).          *)
(***************************************************************************)
EXTENDS Integers, Sequences, FiniteSets, TLC

\* ---------------------------------------------------------------- bounds
NObj      == 2   \* SqlStatement objects the caller can have in scope
MaxVM     == 2   \* native prepared statements alive at the same time
MaxRows   == 2   \* rows a query produces
MaxCols   == 1   \* columns of a result set
MaxBind   == 2   \* binds made in one binding sequence
MaxSqlLen == 3   \* tokens of an SQL text

Objs == 1..NObj
VMs  == 1..MaxVM

\* ------------------------------------------------- values with a width
\* A 64-bit integer is four 16-bit limbs, most significant first; a 32-bit
\* integer is two.
Limb == 65536

Int32Of(v) == <<v[3], v[4]>>
\* int -> int64_t: sign extension
Int64Of(w) ==
    IF w[1] >= Limb \div 2 THEN <<Limb - 1, Limb - 1, w[1], w[2]>>
                           ELSE <<0, 0, w[1], w[2]>>

I32(n) == <<0, n>>
I64(n) == <<0, 0, 0, n>>
MinusOne32 == <<Limb - 1, Limb - 1>>
MinusOne64 == <<Limb - 1, Limb - 1, Limb - 1, Limb - 1>>
Big64      == <<0, 1, 0, 7>>            \* 2^32 + 7

\* ------------------------------------------------------------ SqlType
SQLITE_INTEGER == 1
SQLITE_NULL    == 5

\* A cell of the current row as the engine holds it.
NullCell     == [type |-> SQLITE_NULL, v |-> I64(0)]
IntCell(v)   == [type |-> SQLITE_INTEGER, v |-> v]
Cells        == {NullCell, IntCell(I64(0)), IntCell(Big64)}

sqlite3_column_type(cell)   == cell.type
sqlite3_column_int64(cell)  == cell.v
sqlite3_column_int(cell)    == Int32Of(cell.v)
sqlite3_column_double(cell) == <<"double", cell.v>>
sqlite3_column_text(cell)   ==
    IF cell.type = SQLITE_NULL THEN <<"nullptr">> ELSE <<"text", cell.v>>
sqlite3_column_name(c)      == IF c % 2 = 0 THEN "a" ELSE "b"

\* ---------------------------------------------------------- SQL text
\* "S" is a token of a statement body, ";" ends a statement, " " is
\* whitespace.
Tokens == {"S", ";", " "}
RECURSIVE TextsOfLen(_)
TextsOfLen(n) ==
    IF n = 0 THEN {<<>>}
    ELSE {Append(t, k) : t \in TextsOfLen(n - 1), k \in Tokens}
SqlTexts == UNION {TextsOfLen(n) : n \in 0..MaxSqlLen}

Drop(s, n) == SubSeq(s, n + 1, Len(s))

\* sqlite3_prepare_v2 on the text: whitespace and empty statements are
\* skipped; the first statement ends at its ";" or at the end of the text,
\* and the tail starts right behind it.  [stmt: a statement was found,
\* tail: the text past it]
RECURSIVE Scan(_, _, _)
Scan(sql, i, seen) ==
    IF i > Len(sql) THEN [stmt |-> seen, tail |-> <<>>]
    ELSE IF sql[i] = "S" THEN Scan(sql, i + 1, TRUE)
    ELSE IF sql[i] = ";" /\ seen THEN [stmt |-> TRUE, tail |-> Drop(sql, i)]
    ELSE Scan(sql, i + 1, seen)
sqlite3_prepare_v2(sql) == Scan(sql, 1, FALSE)

\* ------------------------------------------------------- status codes
SQLITE_OK        == 0
SQLITE_ERROR     == 1
SQLITE_BUSY      == 5
SQLITE_INTERRUPT == 9
SQLITE_RANGE     == 25
SQLITE_ROW       == 100
SQLITE_DONE      == 101
EngineErrors == {SQLITE_ERROR, SQLITE_BUSY, SQLITE_INTERRUPT}

ThrowStatusCodeException(statusCode) ==
    IF statusCode = SQLITE_BUSY THEN "DatabaseBusy" ELSE "EngineError"

\* ---------------------------------------------------------------- state
VARIABLES
    mpDB,      \* SqlDatabase::mpDB: 1 = the native connection, 0 = none
    stmt,      \* the SqlStatement objects
    vm,        \* the engine's prepared statements
    misuse,    \* the engine was handed a statement it had already finalized
    iter,      \* history: what happened to each object since its last execute()
    last       \* the last API call and its outcome

vars == <<mpDB, stmt, vm, misuse, iter, last>>

\* A slot with no object in it.
NoObject ==
    [inScope |-> FALSE, mpVM |-> 0, mBindNext |-> 1,
     mEndOfRows |-> TRUE, mColsInResult |-> 0]

\* SqlStatement::SqlStatement() and SqlStatement::SqlStatement(sqlite3_stmt*)
NewStatement(pVM) ==
    [inScope |-> TRUE, mpVM |-> pVM, mBindNext |-> 1,
     mEndOfRows |-> TRUE, mColsInResult |-> 0]

\* A prepared statement the engine does not hold.
\* pos: 0 = reset, 1..rows = on that row, rows+1 = done, -1 = halted by an error
FreeVM == [live |-> FALSE, rows |-> 0, cols |-> 0, pos |-> 0]

\* SqlStatement::hasRow
hasRow(s) == ~s.mEndOfRows

\* An engine call: the function and its argument besides the statement
\* (the parameter slot of a bind, the connection handle of a call on it).
Call(f, a) == <<f, a>>

\* History of an object.  ph: "rows" = its last execute() succeeded and only
\* nextRow() and reads followed, every step without error; "rebound" = a
\* row was current when parameter 1 was bound and no execute() followed;
\* "error" = a step raised an error; "none" otherwise.
\* n: the rows that were current since that execute().
\* k: the bind calls that got past onBind since the statement the object
\* holds was constructed or last executed.
NoIter == [ph |-> "none", n |-> 0, k |-> 0]

Outcome(op, obj, res) ==
    [op |-> op, obj |-> obj, res |-> res, calls |-> <<>>,
     ret |-> <<>>, arg |-> <<>>, cell |-> NullCell]

Init ==
    /\ mpDB = 1
    /\ stmt = [o \in Objs |-> NoObject]
    /\ vm = [h \in VMs |-> FreeVM]
    /\ misuse = FALSE
    /\ iter = [o \in Objs |-> NoIter]
    /\ last = Outcome("open", 0, "ok")

\* ------------------------------------------------------------- engine
LiveVMs == {h \in VMs : vm[h].live}
FreeVMs == {h \in VMs : ~vm[h].live}

\* sqlite3_finalize: the statement is gone
Finalized(v, h) == [v EXCEPT ![h] = FreeVM]

\* sqlite3_reset
Reset(v, h) == [v EXCEPT ![h].pos = 0]

\* The shapes a query can have: a result set with rows has columns.
Shapes ==
    {sh \in [rows : 0..MaxRows, cols : 0..MaxCols] : sh.rows > 0 => sh.cols > 0}

\* sqlite3_step answering `result`: a statement that is done or halted
\* starts over; an error halts it.
StepStart(p, rows) == IF p = rows + 1 \/ p = -1 THEN 0 ELSE p
StepResults(v, h) ==
    IF StepStart(v[h].pos, v[h].rows) < v[h].rows
    THEN {SQLITE_ROW} \cup EngineErrors
    ELSE {SQLITE_DONE} \cup EngineErrors
Stepped(v, h, result) ==
    [v EXCEPT ![h].pos =
        IF result \in EngineErrors THEN -1
        ELSE StepStart(v[h].pos, v[h].rows) + 1]

\* ------------------------------------------------- SqlStatement, pure
\* (An action binds the outcome of a method with \E r \in {...}, so that it
\* is computed once.)
\* Each method is an operator from the object s and the engine's statements
\* v to [s, v, res, ret, calls, bad]: the object and the engine afterwards,
\* "ok" or the error thrown, the value returned, the engine calls made and
\* whether one of them was given a statement that is not live.
Result(s, v, res, ret, calls, bad) ==
    [s |-> s, v |-> v, res |-> res, ret |-> ret, calls |-> calls, bad |-> bad]

\* require(mpVM) failed
InvalidHandle(s, v) == Result(s, v, "InvalidHandle", <<>>, <<>>, FALSE)

\* SqlStatement::destroy
destroy(s, v) ==
    IF s.mpVM # 0
    THEN Result([s EXCEPT !.mEndOfRows = TRUE, !.mpVM = 0],
                Finalized(v, s.mpVM), "ok", <<>>,
                <<Call("sqlite3_finalize", 0)>>, ~v[s.mpVM].live)
    ELSE Result([s EXCEPT !.mEndOfRows = TRUE], v, "ok", <<>>, <<>>, FALSE)

\* onBind that resets the engine but keeps the result state
onBindKeepsRow(s, v) ==
    IF s.mpVM = 0 THEN InvalidHandle(s, v)
    ELSE IF s.mBindNext = 1
    THEN Result(s, Reset(v, s.mpVM), "ok", <<>>,
                <<Call("sqlite3_reset", 0)>>, ~v[s.mpVM].live)
    ELSE Result(s, v, "ok", <<>>, <<>>, FALSE)

\* SqlStatement::onBind
onBind(s, v) ==
    IF s.mpVM = 0 THEN InvalidHandle(s, v)
    ELSE IF s.mBindNext = 1
    THEN Result([s EXCEPT !.mEndOfRows = TRUE, !.mColsInResult = 0],
                Reset(v, s.mpVM), "ok", <<>>,
                <<Call("sqlite3_reset", 0)>>, ~v[s.mpVM].live)
    ELSE Result(s, v, "ok", <<>>, <<>>, FALSE)

\* bind that advances mBindNext only when the engine accepted the value
bindAdvancesOnSuccess(s, v, f, rc) ==
    LET b == onBind(s, v) IN
    IF b.res # "ok" THEN b
    ELSE Result([b.s EXCEPT !.mBindNext = IF rc # SQLITE_OK THEN @ ELSE @ + 1],
                b.v, IF rc # SQLITE_OK THEN "BindError" ELSE "ok", <<>>,
                Append(b.calls, Call("sqlite3_bind", s.mBindNext)),
                ~v[s.mpVM].live)

\* SqlStatement::bind (all overloads), bindNull: rc is the engine's answer
bind(s, v, f, rc) ==
    LET b == onBind(s, v) IN
    IF b.res # "ok" THEN b
    ELSE Result([b.s EXCEPT !.mBindNext = @ + 1], b.v,
                IF rc # SQLITE_OK THEN "BindError" ELSE "ok", <<>>,
                Append(b.calls, Call("sqlite3_bind", s.mBindNext)),
                ~v[s.mpVM].live)

\* SqlStatement::bindSame
bindSame(s, v) ==
    LET b == onBind(s, v) IN
    IF b.res # "ok" THEN b
    ELSE [b EXCEPT !.s.mBindNext = @ + 1]

\* SqlStatement::execute: result is the engine's answer to sqlite3_step
execute(s, v, result) ==
    IF s.mpVM = 0 THEN InvalidHandle(s, v)
    ELSE
    LET h  == s.mpVM
        v1 == IF ~s.mEndOfRows THEN Reset(v, h) ELSE v
        c1 == IF ~s.mEndOfRows THEN <<Call("sqlite3_reset", 0)>> ELSE <<>>
        v2 == Stepped(v1, h, result)
        c2 == Append(c1, Call("sqlite3_step", 0))
        s1 == [s EXCEPT !.mBindNext = 1]
    IN IF result = SQLITE_DONE
       THEN Result([s1 EXCEPT !.mEndOfRows = TRUE, !.mColsInResult = 0],
                   v2, "ok", <<>>, c2, ~v[h].live)
       ELSE IF result = SQLITE_ROW
       THEN Result([s1 EXCEPT !.mEndOfRows = FALSE, !.mColsInResult = v[h].cols],
                   v2, "ok", <<>>,
                   Append(c2, Call("sqlite3_column_count", 0)), ~v[h].live)
       ELSE Result(s1, v2, ThrowStatusCodeException(result), <<>>, c2, ~v[h].live)

\* The answers sqlite3_step can give to execute
ExecuteResults(s, v) ==
    IF s.mpVM = 0 THEN {SQLITE_DONE}
    ELSE StepResults(IF ~s.mEndOfRows THEN Reset(v, s.mpVM) ELSE v, s.mpVM)

\* nextRow without the early return at end-of-rows
nextRowStepsAtEnd(s, v, result) ==
    IF s.mpVM = 0 THEN InvalidHandle(s, v)
    ELSE
    LET h  == s.mpVM
        v1 == Stepped(v, h, result)
        c1 == <<Call("sqlite3_step", 0)>>
    IN IF result = SQLITE_DONE
       THEN Result([s EXCEPT !.mEndOfRows = TRUE], v1, "ok", <<FALSE>>, c1, ~v[h].live)
       ELSE IF result = SQLITE_ROW
       THEN Result([s EXCEPT !.mEndOfRows = FALSE], v1, "ok", <<TRUE>>, c1, ~v[h].live)
       ELSE Result(s, v1, ThrowStatusCodeException(result), <<>>, c1, ~v[h].live)

\* SqlStatement::nextRow
nextRow(s, v, result) ==
    IF s.mpVM = 0 THEN InvalidHandle(s, v)
    ELSE IF s.mEndOfRows THEN Result(s, v, "ok", <<FALSE>>, <<>>, FALSE)
    ELSE
    LET h  == s.mpVM
        v1 == Stepped(v, h, result)
        c1 == <<Call("sqlite3_step", 0)>>
    IN IF result = SQLITE_DONE
       THEN Result([s EXCEPT !.mEndOfRows = TRUE], v1, "ok", <<FALSE>>, c1, ~v[h].live)
       ELSE IF result = SQLITE_ROW
       THEN Result([s EXCEPT !.mEndOfRows = FALSE], v1, "ok", <<TRUE>>, c1, ~v[h].live)
       ELSE Result(s, v1, ThrowStatusCodeException(result), <<>>, c1, ~v[h].live)

\* The answers sqlite3_step can give to nextRow
NextRowResults(s, v) ==
    IF s.mpVM = 0 \/ s.mEndOfRows THEN {SQLITE_DONE}
    ELSE StepResults(v, s.mpVM)

\* currentRow without require(mpVM)
currentRowNoRequire(s, v) ==
    IF s.mEndOfRows THEN Result(s, v, "InvalidState", <<>>, <<>>, FALSE)
    ELSE Result(s, v, "ok", <<>>, <<>>, FALSE)

\* SqlStatement::currentRow
currentRow(s, v) ==
    IF s.mpVM = 0 THEN InvalidHandle(s, v)
    ELSE IF s.mEndOfRows THEN Result(s, v, "InvalidState", <<>>, <<>>, FALSE)
    ELSE Result(s, v, "ok", <<>>, <<>>, FALSE)

\* SqlStatement::ResultRow::numFields
numFields(s, v) ==
    IF s.mpVM = 0 THEN InvalidHandle(s, v)
    ELSE Result(s, v, "ok", <<s.mColsInResult>>, <<>>, FALSE)

\* s.currentRow().numFields()
currentRowNumFields(s, v) ==
    LET r == currentRow(s, v) IN
    IF r.res # "ok" THEN r ELSE numFields(s, v)

\* A copy constructor that leaves the source its handle
copyConstructShared(st, o, src) == [st EXCEPT ![o] = st[src]]

\* SqlStatement::SqlStatement(const SqlStatement&) on the objects st:
\* the new object o takes over src's fields and src gives up its handle
copyConstruct(st, o, src) ==
    [[st EXCEPT ![o] = st[src]] EXCEPT ![src].mpVM = 0]

\* SqlStatement::operator= on the objects st: [st, v, calls, bad]
assign(st, v, o, src) ==
    LET d   == destroy(st[o], v)
        st1 == [st EXCEPT ![o] = d.s]
        st2 == [st1 EXCEPT ![o].mpVM = st1[src].mpVM,
                           ![o].mBindNext = st1[src].mBindNext,
                           ![o].mEndOfRows = st1[src].mEndOfRows,
                           ![o].mColsInResult = st1[src].mColsInResult]
    IN [st |-> [st2 EXCEPT ![src].mpVM = 0], v |-> d.v,
        calls |-> d.calls, bad |-> d.bad]

\* ------------------------------------------------------ statement calls
\* What a method call on the object o leaves behind; it is o's history
\* afterwards.
Apply(op, o, r, arg, it) ==
    /\ stmt' = [stmt EXCEPT ![o] = r.s]
    /\ vm' = r.v
    /\ misuse' = (misuse \/ r.bad)
    /\ iter' = [iter EXCEPT ![o] = it]
    /\ last' = [Outcome(op, o, r.res) EXCEPT
                  !.calls = r.calls, !.ret = r.ret, !.arg = arg]
    /\ UNCHANGED mpDB

\* SqlStatement s;
DefaultConstruct(o) ==
    /\ ~stmt[o].inScope
    /\ stmt' = [stmt EXCEPT ![o] = NewStatement(0)]
    /\ last' = Outcome("construct", o, "ok")
    /\ UNCHANGED <<mpDB, vm, misuse, iter>>

\* SqlStatement o(src);
CopyConstruct(o, src) ==
    /\ ~stmt[o].inScope
    /\ stmt[src].inScope
    /\ stmt' = copyConstruct(stmt, o, src)
    /\ iter' = [iter EXCEPT ![o] = iter[src], ![src] = NoIter]
    /\ last' = [Outcome("copy", o, "ok") EXCEPT !.arg = <<src>>]
    /\ UNCHANGED <<mpDB, vm, misuse>>

\* o = src;
Assign(o, src) ==
    /\ stmt[o].inScope
    /\ stmt[src].inScope
    /\ \E a \in {assign(stmt, vm, o, src)} :
          /\ stmt' = a.st
          /\ vm' = a.v
          /\ misuse' = (misuse \/ a.bad)
          /\ last' = [Outcome("assign", o, "ok") EXCEPT
                        !.arg = <<src>>, !.calls = a.calls]
    /\ iter' = IF o = src THEN [iter EXCEPT ![o] = NoIter]
               ELSE [iter EXCEPT ![o] = iter[src], ![src] = NoIter]
    /\ UNCHANGED mpDB

\* o.destroy();
Destroy(o) ==
    /\ stmt[o].inScope
    /\ \E d \in {destroy(stmt[o], vm)} : Apply("destroy", o, d, <<>>, NoIter)

\* o goes out of scope: ~SqlStatement() { destroy(); }
ScopeExit(o) ==
    /\ stmt[o].inScope
    /\ \E d \in {destroy(stmt[o], vm)} :
         Apply("scopeExit", o, [d EXCEPT !.s = NoObject], <<>>, NoIter)

BindResults == {SQLITE_OK, SQLITE_RANGE}

\* o's history after a bind call that got past onBind
Rebound(o) ==
    IF stmt[o].mpVM = 0 THEN iter[o]
    ELSE IF stmt[o].mBindNext # 1 THEN [iter[o] EXCEPT !.k = @ + 1]
    ELSE IF hasRow(stmt[o]) THEN [ph |-> "rebound", n |-> 0, k |-> iter[o].k + 1]
    ELSE [NoIter EXCEPT !.k = iter[o].k + 1]

\* o.bind(value); o.bindNull();
Bind(o, f) ==
    /\ stmt[o].inScope
    /\ stmt[o].mpVM # 0 => stmt[o].mBindNext <= MaxBind
    /\ \E rc \in (IF stmt[o].mpVM = 0 THEN {SQLITE_OK} ELSE BindResults) :
       \E r \in {bind(stmt[o], vm, f, rc)} :
         Apply(f, o, r, <<stmt[o].mBindNext>>, Rebound(o))

\* o.bindSame();
BindSame(o) ==
    /\ stmt[o].inScope
    /\ stmt[o].mpVM # 0 => stmt[o].mBindNext <= MaxBind
    /\ \E r \in {bindSame(stmt[o], vm)} :
         Apply("bindSame", o, r, <<stmt[o].mBindNext>>, Rebound(o))

\* o's history after the call with outcome r that steps the engine
Iterated(o, r, first) ==
    IF r.res = "InvalidHandle" THEN iter[o]
    ELSE IF r.res # "ok"
    THEN [ph |-> "error", n |-> 0, k |-> IF first THEN 0 ELSE iter[o].k]
    ELSE IF first
    THEN [ph |-> "rows", n |-> IF hasRow(r.s) THEN 1 ELSE 0, k |-> 0]
    ELSE IF r.ret = <<TRUE>> THEN [iter[o] EXCEPT !.n = @ + 1]
    ELSE iter[o]

\* o.execute();
Execute(o) ==
    /\ stmt[o].inScope
    /\ \E result \in ExecuteResults(stmt[o], vm) :
       \E r \in {execute(stmt[o], vm, result)} :
         Apply("execute", o, r, <<>>, Iterated(o, r, TRUE))

\* o.nextRow();
NextRow(o) ==
    /\ stmt[o].inScope
    /\ \E result \in NextRowResults(stmt[o], vm) :
       \E r \in {nextRow(stmt[o], vm, result)} :
         Apply("nextRow", o, r, <<hasRow(stmt[o])>>, Iterated(o, r, FALSE))

\* o.currentRow();
CurrentRow(o) ==
    /\ stmt[o].inScope
    /\ \E r \in {currentRow(stmt[o], vm)} : Apply("currentRow", o, r, <<>>, iter[o])

\* o.currentRow().numFields();
NumFields(o) ==
    /\ stmt[o].inScope
    /\ \E r \in {currentRowNumFields(stmt[o], vm)} :
         Apply("numFields", o, r, <<>>, iter[o])

\* ------------------------------------------------- ResultRow, pure
\* A column is asked for by index or by name.
ByIndex(i)   == [by |-> "index", i |-> i, name |-> ""]
ByName(name) == [by |-> "name", i |-> 0, name |-> name]

\* SqlStatement::ResultRow::fieldIndex: the first column of that name, or
\* -1 for "Invalid field name requested"
RECURSIVE fieldIndexFrom(_, _, _)
fieldIndexFrom(s, szField, nField) ==
    IF nField >= s.mColsInResult THEN -1
    ELSE IF szField = sqlite3_column_name(nField) THEN nField
    ELSE fieldIndexFrom(s, szField, nField + 1)
fieldIndex(s, szField) == fieldIndexFrom(s, szField, 0)

\* SqlStatement::ResultRow::checkIndex
checkIndex(s, nField) == ~(nField < 0 \/ nField >= s.mColsInResult)

\* The typed getters: the value a getter returns for the cell.
\* getIntField(int nField, int nNullValue)
getIntField(cell, nNullValue) ==
    IF sqlite3_column_type(cell) = SQLITE_NULL THEN nNullValue
    ELSE sqlite3_column_int(cell)

\* int64_t getInt64Field(int nField, int nNullValue): the caller's 64-bit
\* substitute is converted to the int parameter, and the int to the result
getInt64Field(cell, nullValue) ==
    IF sqlite3_column_type(cell) = SQLITE_NULL THEN Int64Of(Int32Of(nullValue))
    ELSE sqlite3_column_int64(cell)

\* getFloatField(int nField, double fNullValue)
getFloatField(cell, fNullValue) ==
    IF sqlite3_column_type(cell) = SQLITE_NULL THEN fNullValue
    ELSE sqlite3_column_double(cell)

\* getStringField(int nField, const char* szNullValue)
getStringField(cell, szNullValue) ==
    IF sqlite3_column_type(cell) = SQLITE_NULL THEN szNullValue
    ELSE sqlite3_column_text(cell)

Getters == {"getIntField", "getInt64Field", "getFloatField", "getStringField"}

getField(g, cell, sub) ==
    CASE g = "getIntField"    -> getIntField(cell, sub)
      [] g = "getInt64Field"  -> getInt64Field(cell, sub)
      [] g = "getFloatField"  -> getFloatField(cell, sub)
      [] g = "getStringField" -> getStringField(cell, sub)

\* The substitutes a caller passes to each getter.
Substitutes(g) ==
    CASE g = "getIntField"    -> {I32(0), I32(5), MinusOne32}
      [] g = "getInt64Field"  -> {I64(0), I64(5), MinusOne64, Big64}
      [] g = "getFloatField"  -> {<<"double", I64(0)>>, <<"double", I64(5)>>}
      [] g = "getStringField" -> {<<"empty">>, <<"text", I64(5)>>}

\* How far s.currentRow().g(field, ...) gets before it reads the cell:
\* "ok" or the error thrown
reach(s, v, field) ==
    LET r == currentRow(s, v)
        nField == IF field.by = "name" THEN fieldIndex(s, field.name) ELSE field.i
    IN IF r.res # "ok" THEN r.res
       ELSE IF field.by = "name" /\ nField = -1 THEN "FieldNotFound"
       ELSE IF ~checkIndex(s, nField) THEN "IndexOutOfRange"
       ELSE "ok"

\* s.currentRow().g(field, sub), the engine holding `cell` in that column
currentRowGet(s, v, g, field, sub, cell) ==
    LET res == reach(s, v, field)
    IN IF res # "ok" THEN Result(s, v, res, <<>>, <<>>, FALSE)
       ELSE Result(s, v, "ok", <<getField(g, cell, sub)>>,
                   <<Call("sqlite3_column_type", 0)>>, ~v[s.mpVM].live)

\* ------------------------------------------------- SqlDatabase, pure
PrepareResults == {SQLITE_OK, SQLITE_ERROR}

\* The first statement the engine does not hold.
RECURSIVE FirstFree(_, _)
FirstFree(v, h) == IF h > MaxVM \/ ~v[h].live THEN h ELSE FirstFree(v, h + 1)

\* The prepare step shared by sqlCompile and sqlQueryVar:
\* [pVM, v, res, calls].  rc is the engine's answer for a statement it
\* found in the text, sh the shape of that statement's result.
prepare(db, v, sql, rc, sh) ==
    IF db = 0 THEN [pVM |-> 0, v |-> v, res |-> "InvalidHandle", calls |-> <<>>]
    ELSE
    LET p     == sqlite3_prepare_v2(sql)
        made  == p.stmt /\ rc = SQLITE_OK
        h     == IF made THEN FirstFree(v, 1) ELSE 0
        v1    == IF made
                 THEN [v EXCEPT ![h] = [live |-> TRUE, rows |-> sh.rows,
                                        cols |-> sh.cols, pos |-> 0]]
                 ELSE v
        extra_statements == p.tail # <<>>
        calls == <<Call("sqlite3_prepare_v2", db)>>
    IN IF p.stmt /\ rc # SQLITE_OK
       THEN [pVM |-> 0, v |-> v1, res |-> ThrowStatusCodeException(rc), calls |-> calls]
       ELSE IF extra_statements
       THEN [pVM |-> 0, v |-> v1, res |-> "MultipleStatements", calls |-> calls]
       ELSE [pVM |-> h, v |-> v1, res |-> "ok", calls |-> calls]

\* SqlDatabase::sqlCompile after the prepare step p:
\* [s: the statement returned, v, res, calls, ret, bad]
sqlCompile(p) ==
    Result(IF p.res = "ok" THEN NewStatement(p.pVM) ELSE NoObject,
              p.v, p.res, <<>>, p.calls, FALSE)

\* SqlDatabase::sqlQueryVar after the prepare step p:
\* SqlStatement(pVM).execute(); the temporary is destroyed when execute throws
sqlQueryVar(p, result) ==
    LET e == execute(NewStatement(p.pVM), p.v, result)
        d == destroy(e.s, e.v)
    IN IF p.res # "ok" THEN Result(NoObject, p.v, p.res, <<>>, p.calls, FALSE)
       ELSE IF e.res # "ok"
       THEN Result(NoObject, d.v, e.res, <<>>, p.calls \o e.calls \o d.calls,
                   e.bad \/ d.bad)
       ELSE Result(e.s, e.v, "ok", <<>>, p.calls \o e.calls, e.bad)

\* getScalar that passes errorValue as the substitute for NULL
getScalarNullIsError(q, errorValue, cell) ==
    LET d  == destroy(q.s, q.v)
        nf == currentRowNumFields(q.s, q.v)
        g  == currentRowGet(q.s, q.v, "getIntField", ByIndex(0), errorValue, cell)
    IN IF q.res # "ok" THEN q
       ELSE IF ~hasRow(q.s) \/ nf.ret[1] < 1
       THEN Result(NoObject, d.v, "ok", <<errorValue>>, q.calls \o d.calls,
                   q.bad \/ d.bad)
       ELSE Result(NoObject, d.v, g.res, g.ret, q.calls \o g.calls \o d.calls,
                   q.bad \/ g.bad \/ d.bad)

\* SqlDatabase::getScalar, q the outcome of its sqlQuery: the local
\* statement q.s is destroyed on return
getScalar(q, errorValue, cell) ==
    LET d  == destroy(q.s, q.v)
        nf == currentRowNumFields(q.s, q.v)
        g  == currentRowGet(q.s, q.v, "getIntField", ByIndex(0), I32(0), cell)
    IN IF q.res # "ok" THEN q
       ELSE IF ~hasRow(q.s) \/ nf.ret[1] < 1
       THEN Result(NoObject, d.v, "ok", <<errorValue>>, q.calls \o d.calls,
                   q.bad \/ d.bad)
       ELSE Result(NoObject, d.v, g.res, g.ret, q.calls \o g.calls \o d.calls,
                   q.bad \/ g.bad \/ d.bad)

\* nRet > 0 on a 32-bit int
Positive32(w) == w[1] < Limb \div 2 /\ w # I32(0)

\* SqlDatabase::tableExists, r the outcome of its getScalar(szSQL): nRet > 0
tableExists(r) ==
    IF r.res = "ok" THEN [r EXCEPT !.ret = <<Positive32(r.ret[1])>>] ELSE r

\* ------------------------------------------------------ connection calls
\* A statement found in the text needs room in the engine.
Room(sql) == (mpDB # 0 /\ sqlite3_prepare_v2(sql).stmt) => FreeVMs # {}

\* What a call on the connection leaves behind; the statement it returns
\* goes into the slot o (o = 0: it returns none).
ApplyDb(op, o, r, arg, cell, it) ==
    /\ stmt' = IF o = 0 \/ r.res # "ok" THEN stmt ELSE [stmt EXCEPT ![o] = r.s]
    /\ iter' = IF o = 0 \/ r.res # "ok" THEN iter ELSE [iter EXCEPT ![o] = it]
    /\ vm' = r.v
    /\ misuse' = (misuse \/ r.bad)
    /\ last' = [Outcome(op, o, r.res) EXCEPT
                  !.calls = r.calls, !.ret = r.ret, !.arg = arg, !.cell = cell]
    /\ UNCHANGED mpDB

\* What the engine answers to a prepare of the text and to the first step
\* of the statement: without a connection or a statement it is not asked.
Prepares(sql) ==
    IF mpDB # 0 /\ sqlite3_prepare_v2(sql).stmt THEN PrepareResults ELSE {SQLITE_OK}
\* (a statement that is compiled and then dropped is never stepped; its
\* shape makes no difference)
ShapesOf(sql, rc) ==
    IF mpDB # 0 /\ sqlite3_prepare_v2(sql).stmt /\ rc = SQLITE_OK
       /\ sqlite3_prepare_v2(sql).tail = <<>>
    THEN Shapes ELSE {[rows |-> 0, cols |-> 0]}
FirstSteps(sql, rc, sh) ==
    IF mpDB # 0 /\ sqlite3_prepare_v2(sql).stmt /\ rc = SQLITE_OK
       /\ sqlite3_prepare_v2(sql).tail = <<>>
    THEN (IF sh.rows > 0 THEN {SQLITE_ROW} ELSE {SQLITE_DONE}) \cup EngineErrors
    ELSE {SQLITE_DONE}

\* SqlStatement o = db.sqlCompile(sql);
SqlCompile(o, sql) ==
    /\ ~stmt[o].inScope
    /\ Room(sql)
    /\ \E rc \in Prepares(sql) : \E sh \in ShapesOf(sql, rc) :
       \E p \in {prepare(mpDB, vm, sql, rc, sh)} :
       \E r \in {sqlCompile(p)} :
         ApplyDb("sqlCompile", o, r, <<sql>>, NullCell, NoIter)

\* SqlStatement o = db.sqlQuery(sql);
SqlQuery(o, sql) ==
    /\ ~stmt[o].inScope
    /\ Room(sql)
    /\ \E rc \in Prepares(sql) : \E sh \in ShapesOf(sql, rc) :
       \E result \in FirstSteps(sql, rc, sh) :
       \E p \in {prepare(mpDB, vm, sql, rc, sh)} :
       \E r \in {sqlQueryVar(p, result)} :
         ApplyDb("sqlQuery", o, r, <<sql>>, NullCell,
                 [ph |-> "rows", n |-> IF hasRow(r.s) THEN 1 ELSE 0, k |-> 0])

\* The cells the engine can hold where getScalar reads: it reads only
\* from a row
CellsRead(result) == IF result = SQLITE_ROW THEN Cells ELSE {NullCell}

\* db.getScalar(sql, errorValue);
GetScalar(sql, errorValue) ==
    /\ Room(sql)
    /\ \E rc \in Prepares(sql) : \E sh \in ShapesOf(sql, rc) :
       \E result \in FirstSteps(sql, rc, sh) : \E cell \in CellsRead(result) :
       \E p \in {prepare(mpDB, vm, sql, rc, sh)} :
       \E q \in {sqlQueryVar(p, result)} :
       \E r \in {getScalar(q, errorValue, cell)} :
         ApplyDb("getScalar", 0, r, <<sql, errorValue, sh>>, cell, NoIter)

\* db.tableExists(name);
TableExists ==
    /\ Room(<<"S">>)
    /\ \E rc \in Prepares(<<"S">>) : \E sh \in ShapesOf(<<"S">>, rc) :
       \E result \in FirstSteps(<<"S">>, rc, sh) : \E cell \in CellsRead(result) :
       \E p \in {prepare(mpDB, vm, <<"S">>, rc, sh)} :
       \E q \in {sqlQueryVar(p, result)} :
       \E g \in {getScalar(q, MinusOne32, cell)} :
       \E r \in {tableExists(g)} :
         ApplyDb("tableExists", 0, r, <<>>, cell, NoIter)

\* What a getter call on the object o leaves behind.
ApplyGet(g, o, r, arg, cell) ==
    /\ misuse' = (misuse \/ r.bad)
    /\ last' = [Outcome(g, o, r.res) EXCEPT
                  !.calls = r.calls, !.ret = r.ret, !.arg = arg, !.cell = cell]
    /\ UNCHANGED <<mpDB, stmt, vm, iter>>

\* o.currentRow().g(field, sub);
Get(o, g, field) ==
    /\ stmt[o].inScope
    /\ IF reach(stmt[o], vm, field) = "ok"
       THEN \E sub \in Substitutes(g), cell \in Cells :
            \E r \in {currentRowGet(stmt[o], vm, g, field, sub, cell)} :
              ApplyGet(g, o, r, <<field, sub>>, cell)
       ELSE \E r \in {currentRowGet(stmt[o], vm, g, field, <<>>, NullCell)} :
              ApplyGet(g, o, r, <<field>>, NullCell)

\* db.close();
Close ==
    /\ IF mpDB = 0
       THEN /\ last' = Outcome("close", 0, "ok")
            /\ UNCHANGED mpDB
       ELSE IF LiveVMs # {}
       THEN /\ last' = [Outcome("close", 0, "StatementsStillOpen") EXCEPT
                          !.calls = <<Call("sqlite3_next_stmt", mpDB)>>]
            /\ UNCHANGED mpDB
       ELSE /\ mpDB' = 0
            /\ last' = [Outcome("close", 0, "ok") EXCEPT
                          !.calls = <<Call("sqlite3_next_stmt", mpDB),
                                      Call("sqlite3_close", mpDB)>>]
    /\ UNCHANGED <<stmt, vm, misuse, iter>>

\* db.sqlExecute(sql); db.sqlExec(sql, ...);
ExecOps == {"sqlExecute", "sqlExec"}
SqlExec(op) ==
    /\ IF mpDB = 0
       THEN last' = Outcome(op, 0, "InvalidHandle")
       ELSE \E rc \in {SQLITE_OK} \cup EngineErrors :
              last' = [Outcome(op, 0, IF rc = SQLITE_OK THEN "ok"
                                      ELSE ThrowStatusCodeException(rc)) EXCEPT
                         !.calls = <<Call("sqlite3_exec", mpDB)>>]
    /\ UNCHANGED <<mpDB, stmt, vm, misuse, iter>>

\* The calls that hand mpDB to the engine as it is.
PassThrough ==
    [lastRowId           |-> "sqlite3_last_insert_rowid",
     numberOfRowsChanged |-> "sqlite3_changes",
     setBusyTimeout      |-> "sqlite3_busy_timeout",
     interrupt           |-> "sqlite3_interrupt",
     setSqlTraceHandler  |-> "sqlite3_trace"]
PassThroughOps == DOMAIN PassThrough

\* db.lastRowId(); db.numberOfRowsChanged(); db.setBusyTimeout(ms);
\* db.interrupt(); db.setSqlTraceHandler(h);
\* The engine's behaviour on a null connection is undefined: the call
\* returns or the process crashes.
DbCall(op) ==
    /\ \E res \in (IF mpDB = 0 THEN {"ok", "crash"} ELSE {"ok"}) :
         last' = [Outcome(op, 0, res) EXCEPT !.calls = <<Call(PassThrough[op], mpDB)>>]
    /\ UNCHANGED <<mpDB, stmt, vm, misuse, iter>>

\* ------------------------------------------------------ specifications
\* The SQL texts the callers of Spec pass: one statement, none, two.
SomeTexts == {<<"S">>, <<>>, <<"S", ";", "S">>}

\* Statement objects and the connection they come from.
Next ==
    \/ \E o \in Objs : DefaultConstruct(o)
    \/ \E o, src \in Objs : CopyConstruct(o, src)
    \/ \E o, src \in Objs : Assign(o, src)
    \/ \E o \in Objs : Destroy(o)
    \/ \E o \in Objs : ScopeExit(o)
    \/ \E o \in Objs : Bind(o, "bind")
    \/ \E o \in Objs : Bind(o, "bindNull")
    \/ \E o \in Objs : BindSame(o)
    \/ \E o \in Objs : Execute(o)
    \/ \E o \in Objs : NextRow(o)
    \/ \E o \in Objs : CurrentRow(o)
    \/ \E o \in Objs : NumFields(o)
    \/ \E o \in Objs, sql \in SomeTexts : SqlCompile(o, sql)
    \/ \E o \in Objs, sql \in SomeTexts : SqlQuery(o, sql)
    \/ Close

Spec == Init /\ [][Next]_vars

\* The columns a caller asks for.
Fields == {ByIndex(i) : i \in -1..MaxCols} \cup {ByName(n) : n \in {"a", "b", "z"}}

\* The connection with one statement object: every SQL text, every call
\* on the connection and every way of reading a row.
NextQuery ==
    \/ \E sql \in SqlTexts : SqlCompile(1, sql)
    \/ \E sql \in SqlTexts : SqlQuery(1, sql)
    \/ Execute(1)
    \/ NextRow(1)
    \/ ScopeExit(1)
    \/ \E g \in Getters, field \in Fields : Get(1, g, field)
    \/ \E errorValue \in Substitutes("getIntField") : GetScalar(<<"S">>, errorValue)
    \/ GetScalar(<<>>, MinusOne32)
    \/ TableExists
    \/ \E op \in ExecOps : SqlExec(op)
    \/ \E op \in PassThroughOps : DbCall(op)
    \/ Close

SpecQuery == Init /\ [][NextQuery]_vars

\* ================================================================ claims
Held(h) == \E o \in Objs : stmt[o].inScope /\ stmt[o].mpVM = h
BindOps == {"bind", "bindNull", "bindSame"}
StatementCalls == BindOps \cup {"execute", "nextRow", "currentRow", "numFields"}

\* C1: close() fails with StatementsStillOpen (connection left open) while
\* a statement object derived from the connection still holds its handle,
\* and succeeds once every statement object has been destroyed.
C1_CloseWhenStatementsDestroyed ==
    last.op = "close" =>
      /\ (\E h \in VMs : Held(h)) => (last.res = "StatementsStillOpen" /\ mpDB # 0)
      /\ (\A h \in VMs : ~Held(h)) => (last.res = "ok" /\ mpDB = 0)

\* C2: after a successful execute() followed only by nextRow() calls whose
\* steps raise no error, a row is current only while at most N rows were
\* visited, the statement is at end-of-rows exactly when N rows were
\* visited, nextRow() returns whether a row is current, and a nextRow() at
\* end-of-rows returns false without an engine call and stays at the end.
C2_RowsEnumerated ==
    /\ \A o \in Objs :
         (stmt[o].inScope /\ stmt[o].mpVM # 0 /\ iter[o].ph = "rows") =>
           LET N == vm[stmt[o].mpVM].rows
           IN /\ hasRow(stmt[o]) => (1 <= iter[o].n /\ iter[o].n <= N)
              /\ ~hasRow(stmt[o]) => iter[o].n = N
    /\ (last.op = "nextRow" /\ last.res = "ok") =>
         /\ last.ret = <<hasRow(stmt[last.obj])>>
         /\ last.arg = <<FALSE>> =>
              (last.ret = <<FALSE>> /\ last.calls = <<>> /\ ~hasRow(stmt[last.obj]))

\* C2 witness: a query of MaxRows rows was enumerated to its end and
\* nextRow() was called once more.
C2_Witness ==
    /\ last.op = "nextRow" /\ last.res = "ok" /\ last.arg = <<FALSE>>
    /\ iter[last.obj].ph = "rows" /\ iter[last.obj].n = MaxRows
    /\ stmt[last.obj].mpVM # 0

\* C3: once parameter 1 was bound while a row was current, no row is
\* current, and currentRow().numFields() before a new execute() fails
\* with InvalidState.
C3_RebindDiscardsResult ==
    /\ \A o \in Objs :
         (stmt[o].inScope /\ iter[o].ph = "rebound") =>
           /\ ~hasRow(stmt[o])
           /\ (last.op = "numFields" /\ last.obj = o) => last.res = "InvalidState"
    /\ (last.op \in BindOps /\ last.res # "InvalidHandle" /\ last.arg = <<1>>) =>
         ~hasRow(stmt[last.obj])

\* C3 witness: numFields() was called on a statement rebound from a row.
C3_Witness ==
    /\ last.op = "numFields"
    /\ iter[last.obj].ph = "rebound"
    /\ stmt[last.obj].mBindNext = 2

\* C4: no two statement objects hold the same native handle, every handle
\* an object holds is live, the engine is never handed a finalized
\* statement, a handle an object holds is still held or finalized after
\* every call, each handle given up is finalized by one sqlite3_finalize,
\* and destroy() on an empty object makes no engine call.
RECURSIVE CountCalls(_, _)
CountCalls(calls, f) ==
    IF calls = <<>> THEN 0
    ELSE (IF Head(calls)[1] = f THEN 1 ELSE 0) + CountCalls(Tail(calls), f)

C4_SingleOwner ==
    /\ \A o1, o2 \in Objs :
         (o1 # o2 /\ stmt[o1].mpVM # 0) => stmt[o1].mpVM # stmt[o2].mpVM
    /\ \A o \in Objs : stmt[o].mpVM # 0 => (stmt[o].inScope /\ vm[stmt[o].mpVM].live)
    /\ ~misuse

C4_Step ==
    /\ \A h \in VMs : Held(h) => (Held(h)' \/ ~vm'[h].live)
    /\ last'.op \in {"copy", "assign", "destroy", "scopeExit"} =>
         CountCalls(last'.calls, "sqlite3_finalize")
           = Cardinality({h \in VMs : Held(h) /\ ~vm'[h].live})
    /\ \A o \in Objs :
         (last'.op = "destroy" /\ last'.obj = o /\ stmt[o].inScope /\ stmt[o].mpVM = 0) =>
           (last'.calls = <<>> /\ ~hasRow(stmt'[o]) /\ vm' = vm)

C4_ExclusiveOwnership == [](C4_SingleOwner) /\ [][C4_Step]_vars

\* C4 witness: an assignment finalized the target's statement and moved
\* the source's handle into the target.
C4_Witness ==
    /\ last.op = "assign" /\ last.arg # <<last.obj>>
    /\ last.calls = <<Call("sqlite3_finalize", 0)>>
    /\ stmt[last.obj].mpVM # 0
    /\ stmt[last.arg[1]].mpVM = 0

\* C5: sqlCompile and sqlQuery fail with MultipleStatements exactly when
\* something other than whitespace follows the first statement.
HasNonWhitespace(text) == \E i \in 1..Len(text) : text[i] # " "
C5_MultipleStatementsIffMoreSql ==
    (last.op \in {"sqlCompile", "sqlQuery"} /\ last.res \in {"ok", "MultipleStatements"}) =>
      (last.res = "MultipleStatements"
         <=> HasNonWhitespace(sqlite3_prepare_v2(last.arg[1]).tail))

\* C6: a bind, execute(), nextRow(), currentRow() or numFields() on an
\* object without a native handle fails with InvalidHandle, makes no
\* engine call and changes neither the object nor the engine.
C6_Step ==
    \A o \in Objs :
      (stmt[o].inScope /\ stmt[o].mpVM = 0
         /\ last'.obj = o /\ last'.op \in StatementCalls) =>
        /\ last'.res = "InvalidHandle"
        /\ last'.calls = <<>>
        /\ stmt' = stmt /\ vm' = vm /\ misuse' = misuse
C6_AbsentHandleRejected == [][C6_Step]_vars

\* C6 witness: bindSame() was rejected on an object that gave its handle
\* away in the middle of a binding sequence.
C6_Witness ==
    /\ last.op = "bindSame" /\ last.res = "InvalidHandle"
    /\ stmt[last.obj].mBindNext = 2
    /\ \E o \in Objs : stmt[o].mpVM # 0

\* C7: on a closed connection every call that reaches for the engine fails
\* with InvalidHandle without an engine call, and close() succeeds.
EngineOps ==
    {"sqlCompile", "sqlQuery", "getScalar", "tableExists"}
      \cup ExecOps \cup PassThroughOps
C7_ClosedConnectionRejects ==
    mpDB = 0 =>
      /\ last.op \in EngineOps => (last.res = "InvalidHandle" /\ last.calls = <<>>)
      /\ last.op = "close" => last.res = "ok"

\* C8: getScalar returns errorValue when the query has no row or no column,
\* and the first column of the first row as an int otherwise.
C8_GetScalar ==
    (last.op = "getScalar" /\ last.res = "ok") =>
      LET errorValue == last.arg[2]
          sh == last.arg[3]
      IN IF sh.rows = 0 \/ sh.cols = 0 THEN last.ret = <<errorValue>>
         ELSE last.ret = <<Int32Of(last.cell.v)>>

\* C8 witness: a COUNT(*) of 0 was returned as 0 with errorValue -1.
C8_Witness ==
    /\ last.op = "getScalar" /\ last.res = "ok"
    /\ last.arg[2] = MinusOne32
    /\ last.arg[3].rows > 0
    /\ last.cell = IntCell(I64(0))
    /\ last.ret = <<I32(0)>>

\* C9: a typed getter reading a NULL cell returns exactly the substitute
\* the caller passed.
C9_NullSubstituteReturned ==
    (last.op \in Getters /\ last.res = "ok" /\ last.cell.type = SQLITE_NULL) =>
      last.ret = <<last.arg[2]>>

\* C10: the tracked column count is 0 whenever no row is current.
C10_NoRowNoColumns ==
    \A o \in Objs :
      (stmt[o].inScope /\ ~hasRow(stmt[o])) => stmt[o].mColsInResult = 0

\* C11: the bind cursor mBindNext is always >= 1; on a statement that holds
\* a handle it is one more than the bind, bindNull and bindSame calls made
\* since its construction or last execute(), the k-th of them targets
\* parameter slot k (bindSame binding no value), and execute() on a live
\* statement leaves the cursor at 1 whether or not the step raised an error.
C11_BindCursor ==
    /\ \A o \in Objs :
         stmt[o].inScope =>
           /\ stmt[o].mBindNext >= 1
           /\ stmt[o].mpVM # 0 => stmt[o].mBindNext = iter[o].k + 1
    /\ (last.op \in BindOps /\ last.res # "InvalidHandle") =>
         LET k == iter[last.obj].k
         IN /\ last.arg = <<k>>
            /\ last.op = "bindSame" =>
                 \A i \in 1..Len(last.calls) : last.calls[i][1] # "sqlite3_bind"
            /\ last.op # "bindSame" =>
                 /\ last.calls # <<>>
                 /\ last.calls[Len(last.calls)] = Call("sqlite3_bind", k)
                 /\ \A i \in 1..(Len(last.calls) - 1) :
                      last.calls[i][1] # "sqlite3_bind"
    /\ (last.op = "execute" /\ last.res # "InvalidHandle") =>
         stmt[last.obj].mBindNext = 1

\* C11 witness: the second bind call since the last execute() targeted
\* slot 2 and was refused by the engine.
C11_Witness ==
    /\ last.op = "bindNull" /\ last.res = "BindError"
    /\ iter[last.obj].k = 2
    /\ last.arg = <<2>>
    /\ stmt[last.obj].mBindNext = 3

\* C12: a sqlCompile or sqlQuery call that fails leaves no prepared
\* statement behind: every statement live on the connection after the call
\* was live before it.
C12_Step ==
    (last'.op \in {"sqlCompile", "sqlQuery"} /\ last'.res # "ok") =>
      \A h \in VMs : vm'[h].live => vm[h].live
C12_FailedCallLeavesNoStatement == [][C12_Step]_vars

\* C13: after an execute() or nextRow() that failed because the step
\* answered neither done nor row (busy and interrupt included), the
\* statement has no current row: hasRow() is false and currentRow() fails.
C13_StepErrorLeavesNoRow ==
    (last.op \in {"execute", "nextRow"}
       /\ last.res \in {ThrowStatusCodeException(rc) : rc \in EngineErrors}) =>
      /\ ~hasRow(stmt[last.obj])
      /\ currentRow(stmt[last.obj], vm).res # "ok"

\* C14: an object whose hasRow() is true holds a native statement handle;
\* the source of a copy construction or assignment has given up its
\* handle and reports hasRow() false.
C14_RowImpliesHandle ==
    \A o \in Objs :
      (stmt[o].inScope /\ hasRow(stmt[o])) => stmt[o].mpVM # 0
====
